---- MODULE Spec2Model ----
(***************************************************************************)
(* A model of src/chat_bot/easy_chat.py: the message model                 *)
(* (EasyChatMessage), the client (EasyChatClient: construction from        *)
(* explicit arguments and the environment, setSearchFilter,                *)
(* getSearchFilter, chat) and the response normalizer                      *)
(* (get_json_serializable_data).                                           *)
(*                                                                         *)
(* Python strings that the code takes apart (a role, a url, a filepath, an *)
(* intent) are sequences of one-character strings.  Strings that the code  *)
(* only stores, compares with "" or passes on (keys, endpoints, names, a   *)
(* filter, a content) are TLA+ strings.  Python values whose type the code *)
(* tests at run time are tagged records: PyNone, PyStr, PyInt, PyDict,     *)
(* PyList.                                                                 *)
(***************************************************************************)
EXTENDS Integers, Sequences, FiniteSets, TLC

VARIABLES
    completion,   \* the raw completion object; its contexts are written in place
    received,     \* the raw completion as the transport delivered it
    data,         \* outcome of the last get_json_serializable_data call
    first,        \* what the first normalization of this completion returned, as read then
    renormalized, \* whether the completion has been normalized more than once
    role_in,      \* role argument of the last EasyChatMessage(...) call
    content_in,   \* content argument of that call
    msg,          \* outcome of that call
    env,          \* the process environment read by os.getenv
    args,         \* the arguments of the EasyChatClient(...) call
    client,       \* the constructed client's fields, or the construction's outcome
    filter_,      \* EasyChatClient._filter
    pc,           \* position of the caller in chat(): "idle" or "transport"
    request,      \* the request handed to the transport by the current or last chat()
    trace,        \* steps taken by the current or last chat() call
    outcome,      \* outcome of the last chat() call
    reply,        \* what the transport answered to the current or last chat()
    lastset       \* the argument of the last setSearchFilter call, "" before any

vars == <<completion, received, data, first, renormalized, role_in, content_in, msg,
          env, args, client, filter_, pc, request, trace, outcome, reply, lastset>>

normVars == <<completion, received, data, first, renormalized>>
msgVars == <<role_in, content_in, msg>>
clientVars == <<env, args, client, filter_, pc, request, trace, outcome, reply, lastset>>

(***************************************************************************)
(* Python values                                                           *)
(***************************************************************************)
PyNone == [t |-> "none"]
PyStr(s) == [t |-> "str", s |-> s]
PyInt(n) == [t |-> "int", n |-> n]
PyDict(m) == [t |-> "dict", m |-> m]
PyList(l) == [t |-> "list", l |-> l]
\* an attribute that the object does not have
NoAttr == [t |-> "noattr"]
\* a call that raised
Raise(e) == [kind |-> "raise", exc |-> e]
Return(v) == [kind |-> "return", value |-> v]
None == [kind |-> "none"]

EmptyMap == [k \in {} |-> PyNone]
\* d[k] = v on a Python dict
SetItem(m, k, v) == [x \in (DOMAIN m) \cup {k} |-> IF x = k THEN v ELSE m[x]]

(***************************************************************************)
(* str methods                                                             *)
(***************************************************************************)
LowerOf == [A |-> "a", E |-> "e", H |-> "h", I |-> "i", M |-> "m", N |-> "n",
            P |-> "p", R |-> "r", S |-> "s", T |-> "t", U |-> "u", Y |-> "y"]
Lower(c) == IF c \in DOMAIN LowerOf THEN LowerOf[c] ELSE c
str_lower(s) == [i \in 1..Len(s) |-> Lower(s[i])]

WhiteSpace == {" ", "\t", "\n"}

RECURSIVE lstrip(_)
lstrip(s) == IF s # <<>> /\ Head(s) \in WhiteSpace THEN lstrip(Tail(s)) ELSE s
RECURSIVE rstrip(_)
rstrip(s) ==
    IF s # <<>> /\ s[Len(s)] \in WhiteSpace THEN rstrip(SubSeq(s, 1, Len(s) - 1)) ELSE s
str_strip(s) == rstrip(lstrip(s))

startswith(s, p) == Len(s) >= Len(p) /\ SubSeq(s, 1, Len(p)) = p

\* s.split(sep) for a one-character separator: never empty, keeps empty pieces
RECURSIVE split(_, _)
split(s, sep) ==
    IF \E i \in 1..Len(s) : s[i] = sep
    THEN LET i == CHOOSE i \in 1..Len(s) : s[i] = sep /\ \A j \in 1..(i - 1) : s[j] # sep
         IN  <<SubSeq(s, 1, i - 1)>> \o split(SubSeq(s, i + 1, Len(s)), sep)
    ELSE <<s>>

\* sep.join(parts)
RECURSIVE join(_, _)
join(parts, sep) ==
    IF parts = <<>> THEN <<>>
    ELSE IF Len(parts) = 1 THEN parts[1]
    ELSE parts[1] \o <<sep>> \o join(Tail(parts), sep)

(***************************************************************************)
(* urllib.parse.unquote: each %XX with two hex digits becomes the          *)
(* character of that code; a % not followed by two hex digits is kept.     *)
(* The hex digits among the characters of the modelled urls are 0 and 2.   *)
(***************************************************************************)
HexDigits == {"0", "2"}
HexChar(a, b) ==
    CASE a = "2" /\ b = "0" -> " "
      [] a = "2" /\ b = "2" -> "\""
      [] a = "0" /\ b = "0" -> "NUL"
      [] a = "0" /\ b = "2" -> "STX"

RECURSIVE unquote(_)
unquote(s) ==
    IF s = <<>> THEN <<>>
    ELSE IF s[1] = "%" /\ Len(s) >= 3 /\ s[2] \in HexDigits /\ s[3] \in HexDigits
         THEN <<HexChar(s[2], s[3])>> \o unquote(SubSeq(s, 4, Len(s)))
         ELSE <<s[1]>> \o unquote(Tail(s))

(***************************************************************************)
(* re.findall(r'_pages_(\d+)', s): the digit runs that follow "_pages_",   *)
(* left to right, matches not overlapping.                                 *)
(***************************************************************************)
Digits == {"0", "1", "2", "3", "7"}
PagesMark == <<"_", "p", "a", "g", "e", "s", "_">>

RECURSIVE DigitRun(_)
DigitRun(s) == IF s # <<>> /\ Head(s) \in Digits THEN <<Head(s)>> \o DigitRun(Tail(s)) ELSE <<>>

RECURSIVE findall_pages(_)
findall_pages(s) ==
    IF s = <<>> THEN <<>>
    ELSE LET rest == SubSeq(s, Len(PagesMark) + 1, Len(s))
             run == DigitRun(rest)
         IN  IF startswith(s, PagesMark) /\ run # <<>>
             THEN <<PyStr(run)>> \o findall_pages(SubSeq(rest, Len(run) + 1, Len(rest)))
             ELSE findall_pages(Tail(s))

(***************************************************************************)
(* json.loads on a text over JsonChars.  Over these characters a JSON text *)
(* is a run of the digit 1 (an int), the empty object {}, or a string: a   *)
(* quote, then characters other than quote and backslash or one of the     *)
(* escapes \" and \\, then a quote.  Anything else raises.                 *)
(***************************************************************************)
JsonChars == {"\"", "\\", "1", "a", "{", "}"}
JsonFail == [t |-> "jsonfail"]

RECURSIVE IntOf(_)
IntOf(s) == IF s = <<>> THEN 0 ELSE 10 * IntOf(SubSeq(s, 1, Len(s) - 1)) + 1

\* the characters of a JSON string body, escapes undone; ok is FALSE when malformed
RECURSIVE JsonBody(_)
JsonBody(b) ==
    IF b = <<>> THEN [ok |-> TRUE, s |-> <<>>]
    ELSE IF b[1] = "\"" THEN [ok |-> FALSE, s |-> <<>>]
    ELSE IF b[1] = "\\"
         THEN IF Len(b) >= 2 /\ b[2] \in {"\"", "\\"}
              THEN LET r == JsonBody(SubSeq(b, 3, Len(b)))
                   IN  [ok |-> r.ok, s |-> <<b[2]>> \o r.s]
              ELSE [ok |-> FALSE, s |-> <<>>]
    ELSE LET r == JsonBody(Tail(b))
         IN  [ok |-> r.ok, s |-> <<b[1]>> \o r.s]

json_loads(s) ==
    IF s # <<>> /\ \A i \in 1..Len(s) : s[i] = "1" THEN PyInt(IntOf(s))
    ELSE IF s = <<"{", "}">> THEN PyDict(EmptyMap)
    ELSE IF Len(s) >= 2 /\ s[1] = "\"" /\ s[Len(s)] = "\""
         THEN LET r == JsonBody(SubSeq(s, 2, Len(s) - 1))
              IN  IF r.ok THEN PyStr(r.s) ELSE JsonFail
    ELSE JsonFail

(***************************************************************************)
(* get_json_serializable_data                                              *)
(*                                                                         *)
(* A raw completion is [id, usage, choices]; a choice is [index, context], *)
(* context standing for choice.message.context: NoAttr, PyNone or a        *)
(* PyDict.  The scalar fields of the completion and of the message (created,*)
(* model, object, system_fingerprint, finish_reason, refusal, role,        *)
(* content, end_turn) are copied like id and index and are left out.       *)
(* c["message"]["context"] is the completion's own dict, not a copy: the   *)
(* returned data refers to it ([ref |-> i]) and every write lands in the   *)
(* completion.                                                             *)
(***************************************************************************)
MinUrlParts == 4
HttpPrefix == <<"h", "t", "t", "p">>

\* lines 50-54: the intent, when it is a str that json.loads accepts, is replaced
parse_intent(m) ==
    IF "intent" \in DOMAIN m /\ m["intent"].t = "str"
    THEN LET r == json_loads(m["intent"].s)
         IN  IF r = JsonFail THEN m ELSE SetItem(m, "intent", r)
    ELSE m

\* storage_fields with the test len(urlParts) > 4
storage_fields_above_four(c1, url) ==
    LET urlParts == split(url, "/")
    IN  IF startswith(str_lower(url), HttpPrefix) /\ Len(urlParts) > MinUrlParts
        THEN SetItem(SetItem(SetItem(c1, "storageaccount_name",
                                     PyStr(split(urlParts[3], ".")[1])),
                             "storageaccount_container", PyStr(urlParts[4])),
                     "storageaccount_blob",
                     PyStr(unquote(split(split(join(SubSeq(urlParts, 5, Len(urlParts)), "/"),
                                               "?")[1], "#")[1])))
        ELSE c1

\* lines 60-65, on the citation dict c1 whose url is the str url
storage_fields(c1, url) ==
    LET urlParts == split(url, "/")
    IN  IF startswith(str_lower(url), HttpPrefix) /\ Len(urlParts) >= MinUrlParts
        THEN LET name == split(urlParts[3], ".")[1]
                 container == urlParts[4]
                 rest == join(SubSeq(urlParts, 5, Len(urlParts)), "/")
                 blob == unquote(split(split(rest, "?")[1], "#")[1])
             IN  SetItem(SetItem(SetItem(c1, "storageaccount_name", PyStr(name)),
                                 "storageaccount_container", PyStr(container)),
                         "storageaccount_blob", PyStr(blob))
        ELSE c1

\* parse_citation with the pages appended to those already there
parse_citation_append(c) ==
    IF c.t # "dict" THEN c
    ELSE IF "filepath" \notin DOMAIN c.m THEN c
    ELSE IF c.m["filepath"].t # "str" THEN c
    ELSE LET old == IF "pages" \in DOMAIN c.m /\ c.m["pages"].t = "list"
                    THEN c.m["pages"].l ELSE <<>>
             c1 == SetItem(c.m, "pages", PyList(old \o findall_pages(c.m["filepath"].s)))
         IN  IF "url" \notin DOMAIN c1 THEN PyDict(c1)
             ELSE IF c1["url"].t # "str" THEN PyDict(c1)
             ELSE PyDict(storage_fields(c1, c1["url"].s))

\* lines 58-67, one pass of the loop body: the try block and its bare except
parse_citation(c) ==
    IF c.t # "dict" THEN c                                \* citation["filepath"]: TypeError
    ELSE IF "filepath" \notin DOMAIN c.m THEN c           \* KeyError
    ELSE IF c.m["filepath"].t # "str" THEN c              \* re.findall: TypeError
    ELSE LET c1 == SetItem(c.m, "pages", PyList(findall_pages(c.m["filepath"].s)))
         IN  IF "url" \notin DOMAIN c1 THEN PyDict(c1)    \* KeyError, pages already set
             ELSE IF c1["url"].t # "str" THEN PyDict(c1)  \* .lower(): AttributeError
             ELSE PyDict(storage_fields(c1, c1["url"].s))

\* parse_citations with the try around the loop: the first failure ends it
RECURSIVE until_failure(_)
until_failure(l) ==
    IF l = <<>> THEN <<>>
    ELSE IF l[1].t = "dict" /\ "filepath" \in DOMAIN l[1].m /\ l[1].m["filepath"].t = "str"
            /\ "url" \in DOMAIN l[1].m /\ l[1].m["url"].t = "str"
         THEN <<parse_citation(l[1])>> \o until_failure(Tail(l))
         ELSE <<parse_citation(l[1])>> \o Tail(l)
parse_citations_one_try(m) ==
    IF "citations" \in DOMAIN m /\ m["citations"].t = "list"
    THEN SetItem(m, "citations", PyList(until_failure(m["citations"].l)))
    ELSE m

\* lines 56-67: the loop over the citations, when they are a list
parse_citations(m) ==
    IF "citations" \in DOMAIN m /\ m["citations"].t = "list"
    THEN LET l == m["citations"].l
         IN  SetItem(m, "citations", PyList([i \in 1..Len(l) |-> parse_citation(l[i])]))
    ELSE m

\* lines 36-68 on one choice whose context is a dict
normalize_context(ctx) == PyDict(parse_citations(parse_intent(ctx.m)))

\* the exception the loop body raises on this choice, or None
choice_error(choice) ==
    IF choice.context = NoAttr THEN Raise("AttributeError")    \* line 45
    ELSE IF choice.context = PyNone THEN Raise("TypeError")    \* line 50: "intent" in None
    ELSE None

\* lines 21-69: the outcome, and the completion after the writes
get_json_serializable_data(cmpl) ==
    IF cmpl.usage = PyNone
    THEN [outcome |-> Raise("AttributeError"), completion |-> cmpl]   \* line 30
    ELSE LET n == Len(cmpl.choices)
             bad == {i \in 1..n : choice_error(cmpl.choices[i]) # None}
             stop == IF bad = {} THEN n + 1
                     ELSE CHOOSE i \in bad : \A j \in bad : i <= j
             after == [i \in 1..n |->
                          IF i < stop
                          THEN [cmpl.choices[i] EXCEPT
                                    !.context = normalize_context(cmpl.choices[i].context)]
                          ELSE cmpl.choices[i]]
         IN  [outcome |->
                  IF stop <= n THEN choice_error(cmpl.choices[stop])
                  ELSE Return([id |-> cmpl.id, usage |-> cmpl.usage,
                               choices |-> [i \in 1..n |->
                                   [index |-> cmpl.choices[i].index, context |-> [ref |-> i]]]]),
              completion |-> [cmpl EXCEPT !.choices = after]]

\* what the caller reads in an outcome while the completion is cmpl
Observe(out, cmpl) ==
    IF out.kind # "return" THEN out
    ELSE Return([out.value EXCEPT !.choices =
                    [i \in 1..Len(out.value.choices) |->
                        [index |-> out.value.choices[i].index,
                         context |-> cmpl.choices[out.value.choices[i].context.ref].context]]])

\* a caller normalizes the completion it holds
Normalize ==
    LET r == get_json_serializable_data(completion)
    IN  /\ completion' = r.completion
        /\ data' = r.outcome
        /\ first' = IF first = None THEN Observe(r.outcome, r.completion) ELSE first
        /\ renormalized' = (first # None)
        /\ UNCHANGED <<received, msgVars, clientVars>>

(***************************************************************************)
(* Raw completions the normalizer is run on                                *)
(***************************************************************************)
MaxChoices == 2
MaxCitations == 3
MaxParts == 6
MaxIntentLen == 3

SeqsUpTo(S, n) == UNION {[1..k -> S] : k \in 0..n}

UsageOk == [t |-> "usage", total_tokens |-> 3]
MkChoices(ctxs) == [i \in 1..Len(ctxs) |-> [index |-> i - 1, context |-> ctxs[i]]]
MkCompletion(usage, ctxs) == [id |-> "chatcmpl-1", usage |-> usage, choices |-> MkChoices(ctxs)]

\* "d_pages_3_pages_17" and "d.pdf"
FilepathPages == <<"d", "_", "p", "a", "g", "e", "s", "_", "3",
                   "_", "p", "a", "g", "e", "s", "_", "1", "7">>
FilepathPlain == <<"d", ".", "p", "d", "f">>
\* "https://m.n/k/x%20y/z?q" , "https://m.n" and "m.n/k/z"
UrlBlob == <<"h", "t", "t", "p", "s", ":", "/", "/", "m", ".", "n", "/", "k", "/",
             "x", "%", "2", "0", "y", "/", "z", "?", "q">>
UrlHostOnly == <<"h", "t", "t", "p", "s", ":", "/", "/", "m", ".", "n">>
UrlRelative == <<"m", ".", "n", "/", "k", "/", "z">>

CitationShapes ==
    { PyNone,
      PyDict([url |-> PyStr(UrlBlob)]),
      PyDict([filepath |-> PyInt(1), url |-> PyStr(UrlBlob)]),
      PyDict([filepath |-> PyStr(FilepathPages)]),
      PyDict([filepath |-> PyStr(FilepathPages), url |-> PyNone]),
      PyDict([filepath |-> PyStr(FilepathPages), url |-> PyStr(UrlBlob)]),
      PyDict([filepath |-> PyStr(FilepathPlain), url |-> PyStr(UrlRelative)]),
      PyDict([filepath |-> PyStr(FilepathPlain), url |-> PyStr(UrlHostOnly)]) }

\* completions of every shape: usage present or not, contexts missing, null or dicts
ShapeIntents == {PyStr(<<"{", "}">>), PyStr(<<"a">>), PyInt(1)}
ShapeCitations ==
    { PyNone, PyList(<<>>),
      PyList(<<PyDict([filepath |-> PyStr(FilepathPages), url |-> PyStr(UrlBlob)]),
               PyNone,
               PyDict([url |-> PyStr(UrlBlob)])>>) }
ShapeContexts ==
    {NoAttr, PyNone}
    \cup {PyDict(EmptyMap)}
    \cup {PyDict([intent |-> i]) : i \in ShapeIntents}
    \cup {PyDict([citations |-> c]) : c \in ShapeCitations}
    \cup {PyDict([intent |-> i, citations |-> c]) : i \in ShapeIntents, c \in ShapeCitations}
ShapeCompletions ==
    {MkCompletion(u, ctxs) : u \in {UsageOk, PyNone}, ctxs \in SeqsUpTo(ShapeContexts, MaxChoices)}

\* one choice whose citations are every list of citation shapes
CitCompletions ==
    {MkCompletion(UsageOk, <<PyDict([citations |-> PyList(l)])>>) :
        l \in SeqsUpTo(CitationShapes, MaxCitations)}

\* one choice with one citation whose url is a '/'-joined list of pieces
SegHttps == <<"H", "t", "t", "p", "s", ":">>
SegHost == <<"m", ".", "n">>
SegQuery == <<"k", "%", "2", "0", "x", "?", "q">>
SegFragment == <<"z", "#", "g">>
Segs == {<<>>, SegHttps, SegHost, SegQuery, SegFragment}
FirstSegs == Segs \cup {<<"h", "t", "t", "p", ":">>, <<"h", "t", "t">>, <<"f", "t", "p", ":">>}
UrlParts ==
    UNION {{p \in [1..k -> FirstSegs \cup Segs] : \A i \in 2..k : p[i] \in Segs} : k \in 1..MaxParts}
UrlInputs == {join(p, "/") : p \in UrlParts}
UrlCompletions ==
    {MkCompletion(UsageOk,
        <<PyDict([citations |-> PyList(<<PyDict([filepath |-> PyStr(FilepathPlain),
                                                 url |-> PyStr(u)])>>)])>>) :
        u \in UrlInputs}

\* one choice whose intent is any value, a str being any text over JsonChars
IntentInputs ==
    {PyNone, PyInt(1), PyDict(EmptyMap)} \cup {PyStr(s) : s \in SeqsUpTo(JsonChars, MaxIntentLen)}
IdemCitations ==
    PyList(<<PyDict([filepath |-> PyStr(FilepathPages), url |-> PyStr(UrlBlob)]),
             PyDict([filepath |-> PyStr(FilepathPages)])>>)
IdemCompletions ==
    {MkCompletion(UsageOk, <<PyDict([citations |-> IdemCitations])>>)}
    \cup {MkCompletion(UsageOk, <<PyDict([intent |-> i])>>) : i \in IntentInputs}
    \cup {MkCompletion(UsageOk, <<PyDict([intent |-> i, citations |-> IdemCitations])>>) :
            i \in IntentInputs}

(***************************************************************************)
(* Variables a specification does not use stay at these values.            *)
(***************************************************************************)
NormIdle ==
    completion = None /\ received = None /\ data = None /\ first = None /\ renormalized = FALSE
MsgIdle == role_in = <<>> /\ content_in = "" /\ msg = None
ClientIdle ==
    /\ env = EmptyMap /\ args = EmptyMap /\ client = None /\ filter_ = ""
    /\ pc = "idle" /\ request = None /\ trace = <<>> /\ outcome = None /\ reply = None
    /\ lastset = ""

InitNormalizer(inputs) ==
    /\ completion \in inputs
    /\ received = completion
    /\ data = None
    /\ first = None
    /\ renormalized = FALSE
    /\ MsgIdle
    /\ ClientIdle

NextNormalizer == Normalize

SpecNorm == InitNormalizer(ShapeCompletions) /\ [][NextNormalizer]_vars
SpecCit == InitNormalizer(CitCompletions) /\ [][NextNormalizer]_vars
SpecUrl == InitNormalizer(UrlCompletions) /\ [][NextNormalizer]_vars
SpecIdem == InitNormalizer(IdemCompletions) /\ [][NextNormalizer]_vars

(***************************************************************************)
(* Properties of the normalizer                                            *)
(***************************************************************************)
Normalized == data # None
\* the context of choice i, and citation k of it, in a completion
ContextOf(cmpl, i) == cmpl.choices[i].context
CitationsOf(cmpl, i) == ContextOf(cmpl, i).m["citations"].l
StorageKeys == {"storageaccount_name", "storageaccount_container", "storageaccount_blob"}
HasStorage(c) == c.t = "dict" /\ StorageKeys \cap DOMAIN c.m # {}

\* C1 (as claimed): on a completion with usage, whose contexts are null or dicts with
\* or without intent and citations of any type, normalization returns and never raises.
InC1Domain(cmpl) ==
    /\ cmpl.usage # PyNone
    /\ \A i \in 1..Len(cmpl.choices) : ContextOf(cmpl, i).t \in {"none", "dict"}
C1_NormalizerTotal ==
    (Normalized /\ InC1Domain(received)) => data.kind = "return"

\* the only citation of the only choice of a completion of UrlCompletions
TheCitation(cmpl) == CitationsOf(cmpl, 1)[1]
TheUrl == TheCitation(received).m["url"].s
EndsWithColon(s) == s # <<>> /\ s[Len(s)] = ":"
\* scheme://host or scheme://host/ and nothing more
SchemeAndHostOnly(u) ==
    LET p == split(u, "/")
    IN  /\ Len(p) \in {3, 4}
        /\ EndsWithColon(p[1]) /\ p[2] = <<>> /\ p[3] # <<>>
        /\ Len(p) = 4 => p[4] = <<>>

Slashes(u) == Cardinality({i \in 1..Len(u) : u[i] = "/"})

PathPart(u) == split(split(u, "?")[1], "#")[1]
HasQueryOrFragment(s) == \E i \in 1..Len(s) : s[i] \in {"?", "#"}
\* scheme://host/... with a host free of '?' and '#'
PlainHost(u) ==
    LET p == split(u, "/")
    IN  /\ Len(p) >= 4
        /\ EndsWithColon(p[1]) /\ p[2] = <<>> /\ p[3] # <<>> /\ ~HasQueryOrFragment(p[3])

\* C4 (as claimed): for an http url that gets storage fields, the name is the first
\* dot-separated piece of the host, the container is the path segment after the host
\* and the blob is the decoded rest of the path, and no part of the url's query
\* string or fragment is in any of the three.
C4_StorageFieldsWithoutQuery ==
    (Normalized /\ HasStorage(TheCitation(completion)) /\ PlainHost(TheUrl)) =>
        LET c == TheCitation(completion).m
            p == split(PathPart(TheUrl), "/")
        IN  /\ Len(p) >= 4
            /\ c["storageaccount_name"] = PyStr(split(p[3], ".")[1])
            /\ c["storageaccount_container"] = PyStr(p[4])
            /\ c["storageaccount_blob"] = PyStr(unquote(join(SubSeq(p, 5, Len(p)), "/")))

\* a citation on which the try block raises: not a mapping, or its filepath or url is
\* missing or not a str
IsStr(m, k) == k \in DOMAIN m /\ m[k].t = "str"
Fails(c) == c.t # "dict" \/ ~IsStr(c.m, "filepath") \/ ~IsStr(c.m, "url")
\* the elements of out at the places where the element of in does not fail
RECURSIVE OthersOf(_, _)
OthersOf(in, out) ==
    IF in = <<>> THEN <<>>
    ELSE (IF Fails(in[1]) THEN <<>> ELSE <<out[1]>>) \o OthersOf(Tail(in), Tail(out))
\* the citations as normalized when the failing ones are not in the list
WithoutFailing(in) ==
    parse_citations([citations |-> PyList(SelectSeq(in, LAMBDA c : ~Fails(c)))])["citations"].l

\* C3 (as claimed): a failing citation is left as it was, with no pages and no storage
\* fields; the other citations are augmented as if it were not in the list; the
\* normalization completes.
C3_FailingCitationUntouched ==
    Normalized =>
        LET in == CitationsOf(received, 1)
            out == CitationsOf(completion, 1)
        IN  /\ data.kind = "return"
            /\ \A k \in 1..Len(in) : Fails(in[k]) => out[k] = in[k]
            /\ OthersOf(in, out) = WithoutFailing(in)

\* C3 (amended): a failing citation gets no storage fields, gets pages exactly when its
\* filepath is a str (the failure came from the url), and keeps its own fields; the
\* other citations are augmented as if it were not in the list; the loop ends and the
\* choice is returned.
C3_FailingCitationKeepsPagesOnly ==
    Normalized =>
        LET in == CitationsOf(received, 1)
            out == CitationsOf(completion, 1)
        IN  /\ data.kind = "return"
            /\ Len(out) = Len(in)
            /\ \A k \in 1..Len(in) : Fails(in[k]) =>
                 IF in[k].t = "dict" /\ IsStr(in[k].m, "filepath")
                 THEN /\ out[k].t = "dict"
                      /\ DOMAIN out[k].m = DOMAIN in[k].m \cup {"pages"}
                      /\ \A x \in DOMAIN in[k].m \ {"pages"} : out[k].m[x] = in[k].m[x]
                      /\ out[k].m["pages"] = PyList(findall_pages(in[k].m["filepath"].s))
                 ELSE out[k] = in[k]
            /\ OthersOf(in, out) = WithoutFailing(in)

\* a citation that fails on its url stands between two that got all their fields
C3_Witness ==
    /\ Normalized
    /\ LET in == CitationsOf(received, 1)
           out == CitationsOf(completion, 1)
       IN  /\ Len(in) = 3
           /\ in[2] = PyDict([filepath |-> PyStr(FilepathPages)])
           /\ "pages" \in DOMAIN out[2].m
           /\ ~Fails(in[1]) /\ StorageKeys \subseteq DOMAIN out[1].m
           /\ ~Fails(in[3]) /\ StorageKeys \subseteq DOMAIN out[3].m

\* C10 (as claimed): normalizing the same completion again returns what the first
\* normalization returned, for every intent and every citation list.
C10_Idempotent ==
    first # None => Observe(data, completion) = first

\* an intent str whose parse is a str that json.loads accepts again
Reparsable(i) ==
    /\ i.t = "str"
    /\ LET r == json_loads(i.s) IN r.t = "str" /\ json_loads(r.s) # JsonFail
HasReparsableIntent(cmpl) ==
    \E i \in 1..Len(cmpl.choices) :
        /\ ContextOf(cmpl, i).t = "dict"
        /\ "intent" \in DOMAIN ContextOf(cmpl, i).m
        /\ Reparsable(ContextOf(cmpl, i).m["intent"])

\* C10 (amended): normalizing the same completion again returns what the first
\* normalization returned, for every citation list and every intent except a str
\* whose JSON parse is itself a str that parses as JSON.
C10_IdempotentUnlessReparsable ==
    (first # None /\ ~HasReparsableIntent(received)) => Observe(data, completion) = first

\* a completion whose intent parsed to a str and whose citations were augmented has
\* been normalized twice
C10_Witness ==
    /\ renormalized
    /\ ~HasReparsableIntent(received)
    /\ "intent" \in DOMAIN ContextOf(received, 1).m
    /\ ContextOf(received, 1).m["intent"] = PyStr(<<"\"", "a", "\"">>)
    /\ ContextOf(completion, 1).m["intent"] = PyStr(<<"a">>)
    /\ "citations" \in DOMAIN ContextOf(completion, 1).m
    /\ HasStorage(CitationsOf(completion, 1)[1])

(***************************************************************************)
(* EasyChatMessage                                                         *)
(***************************************************************************)
ValidRoles == {<<"s", "y", "s", "t", "e", "m">>, <<"u", "s", "e", "r">>,
               <<"a", "s", "s", "i", "s", "t", "a", "n", "t">>}

\* EasyChatMessage without the strip()
EasyChatMessage_no_strip(role, content) ==
    LET r == str_lower(role)
    IN  IF r \notin ValidRoles
        THEN Raise("ValueError")
        ELSE Return([role |-> r, content |-> content])

\* lines 74-79: the constructor's outcome, a message or the ValueError
EasyChatMessage(role, content) ==
    LET r == str_lower(str_strip(role))
    IN  IF r \notin ValidRoles
        THEN Raise("ValueError")
        ELSE Return([role |-> r, content |-> content])

\* role strings: a word in any letter casing between runs of whitespace
MaxPad == 1
Upper(c) == IF \E u \in DOMAIN LowerOf : LowerOf[u] = c
            THEN CHOOSE u \in DOMAIN LowerOf : LowerOf[u] = c
            ELSE c
Cased(w, ups) == [i \in 1..Len(w) |-> IF i \in ups THEN Upper(w[i]) ELSE w[i]]
RoleWords == ValidRoles \cup {<<>>, <<"s", "y", "s">>, <<"u", "s", "e", "r", "s">>,
                              <<"u", "s", " ", "e", "r">>}
Pads == SeqsUpTo(WhiteSpace, MaxPad)
Contents == {"", "Hello"}

InitMessage ==
    /\ role_in \in UNION {{l \o Cased(w, ups) \o r : ups \in SUBSET (1..Len(w))} :
                             l \in Pads, r \in Pads, w \in RoleWords}
    /\ content_in \in Contents
    /\ msg = None
    /\ NormIdle
    /\ ClientIdle

\* the caller constructs EasyChatMessage(role_in, content_in)
NewMessage ==
    /\ msg' = EasyChatMessage(role_in, content_in)
    /\ UNCHANGED <<role_in, content_in, normVars, clientVars>>

SpecMsg == InitMessage /\ [][NewMessage]_vars

\* the role word that role_in spells in some casing between whitespace, if any
Spells(s, w) ==
    \E i \in 0..Len(s) :
        /\ i + Len(w) <= Len(s)
        /\ \A k \in 1..i : s[k] \in WhiteSpace
        /\ \A k \in 1..Len(w) : s[i + k] \in {w[k], Upper(w[k])}
        /\ \A k \in (i + Len(w) + 1)..Len(s) : s[k] \in WhiteSpace

\* C7: a role that spells system, user or assistant in any casing between any
\* whitespace gives a message with that role in lowercase and the content as given;
\* any other role gives the ValueError and no message.
C7_RoleNormalized ==
    msg # None =>
        IF \E w \in ValidRoles : Spells(role_in, w)
        THEN /\ msg.kind = "return"
             /\ Spells(role_in, msg.value.role) /\ msg.value.role \in ValidRoles
             /\ msg.value.content = content_in
        ELSE msg = Raise("ValueError")

\* a padded, mixed-case role was accepted
C7_Witness ==
    /\ role_in = <<" ", "U", "s", "E", "r", "\t">>
    /\ msg = Return([role |-> <<"u", "s", "e", "r">>, content |-> content_in])

(***************************************************************************)
(* EasyChatClient                                                          *)
(*                                                                         *)
(* A constructor argument is PyNone or PyStr of a TLA+ string (the         *)
(* open_ai_client argument: PyNone or an AzureOpenAI object).  env maps    *)
(* the names of the environment variables that are set to their values.    *)
(***************************************************************************)
getenv(e, name) == IF name \in DOMAIN e THEN PyStr(e[name]) ELSE PyNone

IsAzureOpenAI(x) == x.t = "AzureOpenAI"
AzureOpenAI(endpoint, auth) == [t |-> "AzureOpenAI", azure_endpoint |-> endpoint, auth |-> auth]
GivenClient == AzureOpenAI("https://given.openai.azure.com", [type |-> "caller"])

\* lines 115-131: the chat-completion client, or the ValueError
open_ai_client_of(a, e) ==
    IF IsAzureOpenAI(a.open_ai_client) THEN Return(a.open_ai_client)
    ELSE IF getenv(e, "OPENAI_API_BASE") \in {PyNone, PyStr("")}
         THEN Raise("ValueError: OPENAI_API_BASE is required")
    ELSE IF getenv(e, "OPENAI_API_KEY") = PyNone
         THEN Return(AzureOpenAI(e["OPENAI_API_BASE"], [type |-> "azure_ad_token_provider"]))
         ELSE Return(AzureOpenAI(e["OPENAI_API_BASE"],
                                 [type |-> "api_key", api_key |-> e["OPENAI_API_KEY"]]))

\* search_api_key_of with "azure_search_api_key or os.getenv(...)"
search_api_key_or_env(a, e) ==
    LET k == IF a.azure_search_api_key \in {PyNone, PyStr("")}
             THEN getenv(e, "AZURESEARCH_API_KEY") ELSE a.azure_search_api_key
    IN  IF k = PyNone THEN "" ELSE k.s

\* lines 133-139: explicit key, else the environment's, else ""
search_api_key_of(a, e) ==
    LET k == IF a.azure_search_api_key = PyNone
             THEN getenv(e, "AZURESEARCH_API_KEY") ELSE a.azure_search_api_key
    IN  IF k = PyNone THEN "" ELSE k.s

\* lines 141-146: explicit base, else the environment's; PyNone or "" is the ValueError
search_api_base_of(a, e) ==
    IF a.azure_search_api_base = PyNone
    THEN getenv(e, "AZURESEARCH_API_BASE") ELSE a.azure_search_api_base

\* lines 149-155, 157-163, 165-171: the argument, else the environment variable when
\* the argument is None; the default when what results is None or ""
defaulted(arg, e, name, default) ==
    LET v == IF arg = PyNone THEN getenv(e, name) ELSE arg
    IN  IF v = PyNone \/ v = PyStr("") THEN default ELSE v.s

\* lines 92-176: the constructor's outcome, the client's fields or the ValueError
EasyChatClient(a, e) ==
    LET oai == open_ai_client_of(a, e)
        base == search_api_base_of(a, e)
        index == defaulted(a.azure_search_index_name, e, "AZURESEARCH_INDEX_NAME", "documents")
    IN  IF oai.kind = "raise" THEN oai
        ELSE IF base = PyNone \/ base = PyStr("")
             THEN Raise("ValueError: AZURESEARCH_API_BASE is required")
        ELSE Return(
            [_open_ai_client |-> oai.value,
             _azure_search_api_key |-> search_api_key_of(a, e),
             _azure_search_api_base |-> base.s,
             _azure_search_index_name |-> index,
             _open_ai_deployment_name |->
                 defaulted(a.open_ai_deployment_name, e, "OPENAI_DEPLOYMENT_NAME", "gpt-4o"),
             _open_ai_embedding_deployment_name |->
                 defaulted(a.open_ai_embedding_deployment_name, e,
                           "OPENAI_EMBEDDING_DEPLOYMENT_NAME", "text-embedding-ada-002"),
             _semantic_configuration |->
                 IF a.semantic_configuration \in {PyNone, PyStr("")}
                 THEN <<index, "-semantic-configuration">>
                 ELSE <<a.semantic_configuration.s>>])

\* lines 203-212: the authentication block
authentication(key) ==
    IF key = ""
    THEN [type |-> "system_assigned_managed_identity"]
    ELSE [type |-> "api_key", api_key |-> key]

\* dataSource with the filter set whatever it is
dataSource_filter_always(cl, f) ==
    [type |-> "azure_search",
     parameters |->
        [endpoint |-> cl._azure_search_api_base,
         index_name |-> cl._azure_search_index_name,
         top_n_documents |-> 5,
         role_information |-> "You must generate citation based on the retrieved information.",
         fields_mapping |-> [filepath_field |-> "chunk_id", url_field |-> "metadata_storage_path"],
         embedding_dependency |->
             [type |-> "deployment_name",
              deployment_name |-> cl._open_ai_embedding_deployment_name],
         query_type |-> "vector_semantic_hybrid",
         semantic_configuration |-> cl._semantic_configuration,
         authentication |-> authentication(cl._azure_search_api_key),
         filter |-> f]]

\* lines 184-215: the data-source descriptor
dataSource(cl, f) ==
    LET parameters ==
            [endpoint |-> cl._azure_search_api_base,
             index_name |-> cl._azure_search_index_name,
             top_n_documents |-> 5,
             role_information |->
                 "You must generate citation based on the retrieved information.",
             fields_mapping |-> [filepath_field |-> "chunk_id",
                                 url_field |-> "metadata_storage_path"],
             embedding_dependency |->
                 [type |-> "deployment_name",
                  deployment_name |-> cl._open_ai_embedding_deployment_name],
             query_type |-> "vector_semantic_hybrid",
             semantic_configuration |-> cl._semantic_configuration,
             authentication |-> authentication(cl._azure_search_api_key)]
    IN  [type |-> "azure_search",
         parameters |-> IF f # "" THEN SetItem(parameters, "filter", f) ELSE parameters]

\* lines 217-229: the arguments of chat.completions.create
create_request(cl, f, messages) ==
    [model |-> cl._open_ai_deployment_name,
     messages |-> [i \in 1..Len(messages) |->
                      [role |-> messages[i].role, content |-> messages[i].content]],
     temperature |-> "0.2",
     extra_body |-> [data_sources |-> <<dataSource(cl, f)>>]]

\* line 181
getSearchFilter == filter_

Constructed == client # None /\ client.kind = "return"

\* EasyChatClient(**a) in the environment env
Construct(a) ==
    /\ client = None
    /\ args' = a
    /\ client' = EasyChatClient(a, env)
    /\ UNCHANGED <<env, filter_, pc, request, trace, outcome, reply, lastset, normVars, msgVars>>

\* lines 178-179
setSearchFilter(f) ==
    /\ Constructed /\ pc = "idle"
    /\ filter_' = f
    /\ lastset' = f
    /\ UNCHANGED <<env, args, client, pc, request, trace, outcome, reply, normVars, msgVars>>

\* chat(messages) up to the blocking call of the transport, lines 184-229
ChatCall(messages) ==
    /\ Constructed /\ pc = "idle"
    /\ request' = create_request(client.value, filter_, messages)
    /\ trace' = <<"build", "transport">>
    /\ pc' = "transport"
    /\ outcome' = None
    /\ reply' = None
    /\ UNCHANGED <<env, args, client, filter_, lastset, normVars, msgVars>>

\* the transport returns a completion: chat normalizes it and returns, line 230
TransportReturn(cmpl) ==
    /\ pc = "transport"
    /\ reply' = Return(cmpl)
    /\ LET r == get_json_serializable_data(cmpl)
       IN  outcome' = Observe(r.outcome, r.completion)
    /\ trace' = trace \o <<"normalize">>
    /\ pc' = "idle"
    /\ UNCHANGED <<env, args, client, filter_, request, lastset, normVars, msgVars>>

\* TransportRaise with one retry of the call
TransportRaise_retry ==
    /\ pc = "transport"
    /\ reply' = Raise("TransportError")
    /\ IF Len(trace) < 3
       THEN trace' = trace \o <<"transport">> /\ pc' = "transport" /\ outcome' = None
       ELSE trace' = trace /\ pc' = "idle" /\ outcome' = Raise("TransportError")
    /\ UNCHANGED <<env, args, client, filter_, request, lastset, normVars, msgVars>>

\* the transport raises: nothing in chat catches it
TransportRaise ==
    /\ pc = "transport"
    /\ reply' = Raise("TransportError")
    /\ outcome' = Raise("TransportError")
    /\ pc' = "idle"
    /\ UNCHANGED <<env, args, client, filter_, request, trace, lastset, normVars, msgVars>>

(***************************************************************************)
(* Environments and constructor arguments                                  *)
(***************************************************************************)
MaxEnvSet == 2
MaxGiven == 2
EnvNames == {"OPENAI_API_BASE", "OPENAI_API_KEY", "OPENAI_DEPLOYMENT_NAME",
             "OPENAI_EMBEDDING_DEPLOYMENT_NAME", "AZURESEARCH_API_BASE",
             "AZURESEARCH_API_KEY", "AZURESEARCH_INDEX_NAME"}
EnvValues == {"", "from-env"}
\* every environment that sets at most MaxEnvSet of the variables
Envs ==
    UNION {[names -> EnvValues] : names \in {n \in SUBSET EnvNames : Cardinality(n) <= MaxEnvSet}}

StrArgNames == {"open_ai_deployment_name", "open_ai_embedding_deployment_name",
                "azure_search_api_base", "azure_search_index_name",
                "azure_search_api_key", "semantic_configuration"}
ArgNames == StrArgNames \cup {"open_ai_client"}
ArgValues(name) ==
    IF name = "open_ai_client" THEN {GivenClient} ELSE {PyStr(""), PyStr("from-arg")}
\* every call that gives at most MaxGiven of the arguments
ArgSets ==
    {a \in [ArgNames -> {PyNone, GivenClient, PyStr(""), PyStr("from-arg")}] :
        /\ \A name \in ArgNames : a[name] = PyNone \/ a[name] \in ArgValues(name)
        /\ Cardinality({name \in ArgNames : a[name] # PyNone}) <= MaxGiven}

InitConfig ==
    /\ env \in Envs
    /\ args = EmptyMap /\ client = None /\ filter_ = ""
    /\ pc = "idle" /\ request = None /\ trace = <<>> /\ outcome = None /\ reply = None
    /\ lastset = ""
    /\ NormIdle
    /\ MsgIdle

NextConfig == \E a \in ArgSets : Construct(a)

SpecConfig == InitConfig /\ [][NextConfig]_vars

(***************************************************************************)
(* One client in use: constructed once, then filtered and chatted with.    *)
(* The environment and the arguments are those that concern the two search *)
(* settings and the chat-completion client.                                *)
(***************************************************************************)
SearchEnvs == {e \in Envs : DOMAIN e \subseteq {"AZURESEARCH_API_KEY", "AZURESEARCH_API_BASE"}}
SearchArgs ==
    {a \in ArgSets : \A name \in ArgNames :
        a[name] # PyNone =>
            name \in {"open_ai_client", "azure_search_api_key", "azure_search_api_base"}}

Filters == {"", "year gt 2020", "lang eq 'en'"}
MessageLists ==
    { <<>>,
      <<EasyChatMessage(<<"s", "y", "s", "t", "e", "m">>, "Be brief").value,
        EasyChatMessage(<<"u", "s", "e", "r">>, "Hello").value>> }
Replies ==
    { MkCompletion(UsageOk, <<>>),
      MkCompletion(UsageOk, <<PyDict([intent |-> PyStr(<<"{", "}">>), citations |-> IdemCitations])>>),
      MkCompletion(UsageOk, <<PyNone>>) }

Init ==
    /\ env \in SearchEnvs
    /\ args = EmptyMap /\ client = None /\ filter_ = ""
    /\ pc = "idle" /\ request = None /\ trace = <<>> /\ outcome = None /\ reply = None
    /\ lastset = ""
    /\ NormIdle
    /\ MsgIdle

Next ==
    \/ \E a \in SearchArgs : Construct(a)
    \/ \E f \in Filters : setSearchFilter(f)
    \/ \E m \in MessageLists : ChatCall(m)
    \/ \E c \in Replies : TransportReturn(c)
    \/ TransportRaise

Spec == Init /\ [][Next]_vars

(***************************************************************************)
(* Properties of the client                                                *)
(***************************************************************************)
SentParameters == request.extra_body.data_sources[1].parameters

\* C5: the descriptor a chat call sends has no filter key when the filter last set is
\* "" (or none was set) and else has the filter last set; getSearchFilter returns the
\* filter last set; chat does not change it.
C5_FilterAsLastSet ==
    /\ getSearchFilter = lastset
    /\ pc = "transport" =>
           IF lastset = "" THEN "filter" \notin DOMAIN SentParameters
           ELSE "filter" \in DOMAIN SentParameters /\ SentParameters["filter"] = lastset

\* a chat call is under way that sent a filter set before it, and another with none
C5_Witness ==
    /\ pc = "transport"
    /\ lastset = "year gt 2020"
    /\ SentParameters["filter"] = "year gt 2020"
    /\ outcome = None

\* the search credential as the claim resolves it
ResolvedKey ==
    IF args["azure_search_api_key"] # PyNone THEN args["azure_search_api_key"].s
    ELSE IF "AZURESEARCH_API_KEY" \in DOMAIN env THEN env["AZURESEARCH_API_KEY"]
    ELSE ""

\* C6: the authentication block a chat call sends is the managed identity alone when
\* the resolved search credential is "", and the api key with the credential
\* otherwise; the credential is the explicit key if given, else the environment's,
\* else "".
C6_AuthenticationByKey ==
    pc = "transport" =>
        /\ client.value._azure_search_api_key = ResolvedKey
        /\ SentParameters["authentication"] =
               IF ResolvedKey = "" THEN [type |-> "system_assigned_managed_identity"]
               ELSE [type |-> "api_key", api_key |-> ResolvedKey]

\* an explicit empty key hides the environment's key, and the request is sent with
\* the managed identity
C6_Witness ==
    /\ pc = "transport"
    /\ args["azure_search_api_key"] = PyStr("")
    /\ "AZURESEARCH_API_KEY" \in DOMAIN env /\ env["AZURESEARCH_API_KEY"] = "from-env"
    /\ SentParameters["authentication"] = [type |-> "system_assigned_managed_identity"]

Count(seq, x) == Cardinality({i \in 1..Len(seq) : seq[i] = x})

\* C9: a chat call invokes the transport once, after the request is built and before
\* any normalization; when the transport fails the failure is the call's outcome as
\* it is, the transport is not invoked again, nothing is normalized, and the client's
\* fields and its filter are as before.
C9_TransportOnce ==
    [][ /\ (pc = "idle" /\ pc' = "transport") =>
              /\ trace' = <<"build", "transport">>
              /\ request'.extra_body.data_sources = <<dataSource(client.value, filter_)>>
              /\ request'.model = client.value._open_ai_deployment_name
              /\ outcome' = None
        /\ pc = "transport" =>
              /\ pc' = "idle"
              /\ client' = client /\ filter_' = filter_ /\ request' = request
              /\ Count(trace', "transport") = 1
              /\ reply'.kind = "raise" => outcome' = reply' /\ trace' = trace
              /\ reply'.kind = "return" => trace' = trace \o <<"normalize">>
      ]_vars

\* a chat call has ended with the transport's failure
C9_Witness ==
    /\ pc = "idle"
    /\ reply = Raise("TransportError")
    /\ outcome = Raise("TransportError")
    /\ trace = <<"build", "transport">>
    /\ filter_ # ""

\* the three defaulted fields: argument, environment variable, default, stored field
DefaultedFields ==
    { <<"azure_search_index_name", "AZURESEARCH_INDEX_NAME", "documents",
        "_azure_search_index_name">>,
      <<"open_ai_deployment_name", "OPENAI_DEPLOYMENT_NAME", "gpt-4o",
        "_open_ai_deployment_name">>,
      <<"open_ai_embedding_deployment_name", "OPENAI_EMBEDDING_DEPLOYMENT_NAME",
        "text-embedding-ada-002", "_open_ai_embedding_deployment_name">> }

\* C8 (as claimed): each defaulted field is the explicit argument when one is given,
\* else the environment variable when it holds a value, else the default; the default
\* is not chosen while the environment variable holds a non-empty value and no
\* non-empty argument overrides it.
C8_EnvironmentBeforeDefault ==
    Constructed =>
        \A f \in DefaultedFields :
            LET arg == args[f[1]]
                field == client.value[f[4]]
            IN  IF arg \notin {PyNone, PyStr("")} THEN field = arg.s
                ELSE IF f[2] \in DOMAIN env /\ env[f[2]] # "" THEN field = env[f[2]]
                ELSE field = f[3]

====
